---- MODULE Spec2Model ----
(***************************************************************************)
(* A model of src/script.js: ThemeManager (light/dark theme kept in        *)
(* localStorage, mirrored into DOM classes, icons and derived "-rgb" CSS   *)
(* variables, with a timed transition class) and AnimationManager          *)
(* (one-shot entrance animation through an IntersectionObserver, hover     *)
(* transforms, scroll progress bar and parallax).                          *)
(*                                                                         *)
(* Every action is one whole handler of the page's single-threaded event   *)
(* loop.  Text is modelled as sequences of one-character strings, JS       *)
(* numbers that can be NaN or infinite as tagged rationals.                *)
(***************************************************************************)
EXTENDS Integers, Sequences, FiniteSets, TLC

VARIABLES
    \* ---- page ----
    loaded,            \* DOMContentLoaded has run and the managers exist
    \* ---- environment of ThemeManager ----
    storage,           \* localStorage.getItem('theme'), Null when the key is absent
    mq,                \* mediaQuery.matches of '(prefers-color-scheme: dark)'
    hasSun, hasMoon,   \* #sun-icon / #moon-icon exist in the document
    markupSunHidden,   \* the icons' 'hidden' class as written in the markup
    markupMoonHidden,
    sheet,             \* the page's CSS: dark-mode class -> color name -> value
    \* ---- ThemeManager and the DOM it writes ----
    currentTheme,      \* this.currentTheme (Null while no instance exists)
    darkClass,         \* 'dark-mode' on documentElement
    sunHidden, moonHidden,
    transitionClass,   \* 'theme-transition' on documentElement
    timers,            \* pending setTimeout(..., 300) callbacks (FIFO, equal delays)
    rgbVars,           \* inline '--color-<name>-rgb' on documentElement
    \* ---- environment of AnimationManager ----
    hasIO,             \* 'IntersectionObserver' in window
    childIndex,        \* position of each .bento-item among its parent's children
    \* ---- AnimationManager and the DOM it writes ----
    observed,          \* targets the observer still observes
    animateIn,         \* items carrying the 'animate-in' class
    animDelay,         \* style.animationDelay of each item, in ms (-1: not set)
    hoverTransform,    \* items whose style.transform is the hover transform
    \* ---- scroll geometry and what the scroll handler writes ----
    scrollY,           \* window.pageYOffset
    scrollHeight,      \* document.body.scrollHeight
    innerHeight,       \* window.innerHeight
    hasBar,            \* .scroll-progress-bar exists
    barWidth,          \* the number n of the last `${n}%` assigned to style.width
    imgShift,          \* the number n of the last translate3d(0, ${n}px, 0)
    \* ---- history (not program state; read only by the properties) ----
    op,                \* name of the last handler that ran
    arg,               \* its argument when it was setTheme
    hist,              \* the last operations, newest first: name and the theme
                       \* and stored value they started from
    explicit,          \* toggleTheme or a valid setTheme has stored a preference
    loadStorage,       \* what the 'theme' key held when the page was loaded
    lastTheme,         \* currentTheme of the previous instance when it was unloaded
    entriesIn,         \* the last intersection callback's entries: their targets,
                       \* and the targets some entry reported as intersecting
    setCount           \* per item, how often a callback set its delay and class

vars == <<loaded, storage, mq, hasSun, hasMoon, markupSunHidden, markupMoonHidden,
          sheet, currentTheme, darkClass, sunHidden, moonHidden, transitionClass,
          timers, rgbVars, hasIO, childIndex, observed, animateIn, animDelay,
          hoverTransform, scrollY, scrollHeight, innerHeight, hasBar, barWidth,
          imgShift, op, arg, hist, explicit, loadStorage, lastTheme, entriesIn,
          setCount>>

themeEnv   == <<hasSun, hasMoon, markupSunHidden, markupMoonHidden, sheet>>
themeDom   == <<darkClass, sunHidden, moonHidden, transitionClass, timers, rgbVars>>
themeHist  == <<arg, hist, explicit, loadStorage, lastTheme>>
animEnv    == <<hasIO, childIndex>>
animDom    == <<observed, animateIn, animDelay, hoverTransform>>
animHist   == <<entriesIn, setCount>>
scrollEnv  == <<scrollY, scrollHeight, innerHeight, hasBar>>
scrollDom  == <<barWidth, imgShift>>

----
\* Bounds of the exploration.
MaxTimers   == 3    \* pending removal timers
MaxStrLen   == 7    \* length of the generated computed color strings
NItems      == 2    \* .bento-item elements
MaxLead     == 1    \* children of the grid that precede its first item
MaxEntries  == 2    \* entries delivered to one intersection callback
MaxSets     == 2    \* cap of the per-item history counter setCount
MaxOffset   == 4    \* largest scroll offset
MaxHeight   == 3    \* largest body scroll height / viewport height

\* JS null / undefined where a string is expected; no string of the model equals it.
Null == "<null>"

\* !!v for a value that is a string or null.
Truthy(v) == v # Null /\ v # ""

----
\* Text.  A string is a sequence of one-character strings.

HexChars == <<"0", "1", "2", "3", "4", "5", "6", "7", "8", "9",
              "a", "b", "c", "d", "e", "f">>
HexUpper == <<"0", "1", "2", "3", "4", "5", "6", "7", "8", "9",
              "A", "B", "C", "D", "E", "F">>
WhiteSpace == {" ", "\t", "\n"}

\* The characters parseInt(_, 16) accepts as digits.
IsHexDigit(c) == \E i \in 1..16 : HexChars[i] = c \/ HexUpper[i] = c

HexVal(c) == (CHOOSE i \in 1..16 : HexChars[i] = c \/ HexUpper[i] = c) - 1

RECURSIVE TrimLeft(_)
TrimLeft(s) ==
    IF s # <<>> /\ Head(s) \in WhiteSpace THEN TrimLeft(Tail(s)) ELSE s

RECURSIVE TrimRight(_)
TrimRight(s) ==
    IF s # <<>> /\ s[Len(s)] \in WhiteSpace
    THEN TrimRight(SubSeq(s, 1, Len(s) - 1)) ELSE s

\* String.prototype.trim
trim(s) == TrimRight(TrimLeft(s))

\* hex.replace('#', ''): a string pattern replaces the FIRST occurrence only,
\* wherever it stands.
replaceHash(s) ==
    IF \E i \in 1..Len(s) : s[i] = "#"
    THEN LET k == CHOOSE i \in 1..Len(s) :
                      s[i] = "#" /\ \A j \in 1..(i - 1) : s[j] # "#"
         IN  SubSeq(s, 1, k - 1) \o SubSeq(s, k + 1, Len(s))
    ELSE s

\* hex.split('').map(char => char + char).join('')
doubleChars(s) == [i \in 1..(2 * Len(s)) |-> s[(i + 1) \div 2]]

\* String.prototype.substr(start, length), start counted from 0.
substr(s, start, length) ==
    SubSeq(s, start + 1, IF start + length < Len(s) THEN start + length ELSE Len(s))

\* A JS number: NaN, an infinity (n is its sign) or the rational n/d, d > 0,
\* in lowest terms.
NaN == [k |-> "nan", n |-> 0, d |-> 1]
Infinity(sign) == [k |-> "inf", n |-> sign, d |-> 1]
Fin(i) == [k |-> "fin", n |-> i, d |-> 1]

RECURSIVE GCD(_, _)
GCD(x, y) == IF y = 0 THEN x ELSE GCD(y, x % y)

Abs(x) == IF x < 0 THEN 0 - x ELSE x

\* The number num/den, den # 0.
Frac(num, den) ==
    LET g == GCD(Abs(num), Abs(den))
        sg == IF den < 0 THEN 0 - 1 ELSE 1
    IN  [k |-> "fin", n |-> (sg * num) \div g, d |-> Abs(den) \div g]

\* a / b of two integers: 0/0 is NaN, x/0 an infinity.
jsDiv(a, b) ==
    IF b # 0 THEN Frac(a, b)
    ELSE IF a = 0 THEN NaN
    ELSE Infinity(IF a > 0 THEN 1 ELSE 0 - 1)

\* x * m for an integer m > 0.
jsTimes(x, m) == IF x.k = "fin" THEN Frac(x.n * m, x.d) ELSE x

\* Math.min(x, m) for an integer m: NaN if x is NaN.
mathMin(x, m) ==
    IF x.k = "nan" THEN NaN
    ELSE IF x.k = "inf" THEN (IF x.n > 0 THEN Fin(m) ELSE x)
    ELSE IF x.n <= m * x.d THEN x ELSE Fin(m)

RECURSIVE DigitsValue(_, _)
\* The value of the longest prefix of hex digits of s, continuing from acc.
DigitsValue(s, acc) ==
    IF s # <<>> /\ IsHexDigit(Head(s))
    THEN DigitsValue(Tail(s), 16 * acc + HexVal(Head(s)))
    ELSE acc

\* parseInt(s, 16): leading white space is skipped, one sign is read, a "0x"
\* prefix is dropped, then the longest prefix of hex digits is the value; NaN
\* when that prefix is empty.  Anything after the digits is ignored.
parseInt16(s) ==
    LET a == TrimLeft(s)
        neg == a # <<>> /\ Head(a) = "-"
        b == IF a # <<>> /\ Head(a) \in {"-", "+"} THEN Tail(a) ELSE a
        c == IF Len(b) >= 2 /\ b[1] = "0" /\ b[2] \in {"x", "X"}
             THEN SubSeq(b, 3, Len(b)) ELSE b
    IN  IF c = <<>> \/ ~IsHexDigit(Head(c)) THEN NaN
        ELSE Fin(IF neg THEN 0 - DigitsValue(c, 0) ELSE DigitsValue(c, 0))

RECURSIVE Decimal(_)
\* The decimal digits of a natural number.
Decimal(n) ==
    IF n < 10 THEN <<HexChars[n + 1]>>
    ELSE Decimal(n \div 10) \o <<HexChars[(n % 10) + 1]>>

\* `${x}` of an integer or NaN (-0 prints as 0).
numberToString(x) ==
    IF x.k = "nan" THEN <<"N", "a", "N">>
    ELSE IF x.n < 0 THEN <<"-">> \o Decimal(0 - x.n) ELSE Decimal(x.n)

\* hexToRgb's null, and an unset CSS property: both read as the empty text, and
\* `if (rgb)` is false for null and for the empty string alike.
NoText == <<>>

\* ThemeManager.hexToRgb
hexToRgb(hex) ==
    LET h1 == replaceHash(hex)
        h2 == IF Len(h1) = 3 THEN doubleChars(h1) ELSE h1
    IN  IF Len(h2) # 6 THEN NoText
        ELSE numberToString(parseInt16(substr(h2, 0, 2))) \o <<",", " ">>
            \o numberToString(parseInt16(substr(h2, 2, 2))) \o <<",", " ">>
            \o numberToString(parseInt16(substr(h2, 4, 2)))

\* The six color names of updateRgbVariables.
ColorNames == {"primary", "secondary", "accent", "gaming", "tech", "media"}

\* getComputedStyle(documentElement).getPropertyValue('--color-<name>'): the
\* page's CSS decides it from the dark-mode class.
computedStyle(css, dark) == css[dark]

----
\* ThemeManager.  Tm is the instance together with what it writes: its field,
\* the stored key, the classes, the icons, the inline properties, the timers.
\* Each method is an operator from that record to the record after the call.

Themes == {"light", "dark"}

Tm == [currentTheme |-> currentTheme, storage |-> storage, darkClass |-> darkClass,
       sunHidden |-> sunHidden, moonHidden |-> moonHidden,
       transitionClass |-> transitionClass, timers |-> timers, rgbVars |-> rgbVars]

\* ThemeManager.updateRgbVariables
updateRgbVariables(s) ==
    LET style == computedStyle(sheet, s.darkClass)
    IN  [s EXCEPT !.rgbVars =
            [name \in ColorNames |->
                LET rgb == hexToRgb(trim(style[name]))
                IN  IF rgb # NoText THEN rgb ELSE s.rgbVars[name]]]

\* ThemeManager.addTransitionClass: the class is added and one more removal
\* callback is pending.
addTransitionClass(s) ==
    [s EXCEPT !.transitionClass = TRUE, !.timers = s.timers + 1]

\* removeTransitionClass as a cancelling implementation would have it: only
\* the last pending callback removes the class.
removeTransitionClassLastOnly(s) ==
    [s EXCEPT !.transitionClass = IF s.timers = 1 THEN FALSE ELSE s.transitionClass,
              !.timers = s.timers - 1]

\* The callback addTransitionClass hands to setTimeout: classList.remove.
removeTransitionClass(s) ==
    [s EXCEPT !.transitionClass = FALSE, !.timers = s.timers - 1]

\* getInitialTheme without the test against the two enum members.
getInitialThemeAnySaved(savedTheme, matches) ==
    IF Truthy(savedTheme)
    THEN savedTheme
    ELSE IF matches THEN "dark" ELSE "light"

\* ThemeManager.getInitialTheme
getInitialTheme(savedTheme, matches) ==
    IF Truthy(savedTheme) /\ (savedTheme = "light" \/ savedTheme = "dark")
    THEN savedTheme
    ELSE IF matches THEN "dark" ELSE "light"

\* applyTheme without localStorage.setItem.
applyThemeNoSave(s, theme) ==
    LET isDark == theme = "dark"
        s1 == [s EXCEPT !.darkClass = isDark]
        s2 == IF hasSun /\ hasMoon
              THEN [s1 EXCEPT !.sunHidden = isDark, !.moonHidden = ~isDark]
              ELSE s1
        s4 == [s2 EXCEPT !.currentTheme = theme]
    IN  addTransitionClass(updateRgbVariables(s4))

\* applyTheme hiding both icons on the same condition.
applyThemeSameIcons(s, theme) ==
    LET isDark == theme = "dark"
        s1 == [s EXCEPT !.darkClass = isDark]
        s2 == IF hasSun /\ hasMoon
              THEN [s1 EXCEPT !.sunHidden = isDark, !.moonHidden = isDark]
              ELSE s1
        s3 == [s2 EXCEPT !.storage = theme]
        s4 == [s3 EXCEPT !.currentTheme = theme]
    IN  addTransitionClass(updateRgbVariables(s4))

\* ThemeManager.applyTheme
applyTheme(s, theme) ==
    LET isDark == theme = "dark"
        s1 == [s EXCEPT !.darkClass = isDark]
        s2 == IF hasSun /\ hasMoon
              THEN [s1 EXCEPT !.sunHidden = isDark, !.moonHidden = ~isDark]
              ELSE s1
        s3 == [s2 EXCEPT !.storage = theme]
        s4 == [s3 EXCEPT !.currentTheme = theme]
    IN  addTransitionClass(updateRgbVariables(s4))

\* toggleTheme with both branches of the conditional 'dark'.
toggleThemeAlwaysDark(s) ==
    applyTheme(s, IF s.currentTheme = "light" THEN "dark" ELSE "dark")

\* ThemeManager.toggleTheme
toggleTheme(s) ==
    applyTheme(s, IF s.currentTheme = "light" THEN "dark" ELSE "light")

\* ThemeManager.handleSystemThemeChange, e.matches = matches
handleSystemThemeChange(s, matches) ==
    IF ~Truthy(s.storage)
    THEN applyTheme(s, IF matches THEN "dark" ELSE "light")
    ELSE s

\* setTheme without the validation.
setThemeUnchecked(s, theme) == applyTheme(s, theme)

\* ThemeManager.setTheme
setTheme(s, theme) ==
    IF theme = "light" \/ theme = "dark" THEN applyTheme(s, theme) ELSE s

\* ThemeManager.getTheme
getTheme(s) == s.currentTheme

\* ThemeManager.init (the listeners it registers are the actions below)
init(s) == updateRgbVariables(applyTheme(s, s.currentTheme))

\* new ThemeManager()
constructor(s, matches) ==
    init([s EXCEPT !.currentTheme = getInitialTheme(s.storage, matches)])

\* The record written back to the variables.
Put(s) ==
    /\ currentTheme' = s.currentTheme
    /\ storage' = s.storage
    /\ darkClass' = s.darkClass
    /\ sunHidden' = s.sunHidden
    /\ moonHidden' = s.moonHidden
    /\ transitionClass' = s.transitionClass
    /\ timers' = s.timers
    /\ rgbVars' = s.rgbVars

\* The history of the theme operations: what ran, and from where.
Record(name, a) ==
    /\ op' = name
    /\ arg' = a
    /\ hist' = SubSeq(<<[name |-> name, theme |-> currentTheme, stored |-> storage]>>
                          \o hist, 1, IF Len(hist) >= 1 THEN 2 ELSE 1)

----
\* AnimationManager.

Items == 1..NItems

An == [observed |-> observed, animateIn |-> animateIn, animDelay |-> animDelay,
       setCount |-> setCount]

\* `${index * 0.1}s`, kept in milliseconds.
staggerDelay(index) == index * 100

\* processEntry without observer.unobserve.
processEntryStillObserved(a, entry) ==
    IF entry.isIntersecting
    THEN [a EXCEPT !.animDelay[entry.target] = staggerDelay(childIndex[entry.target]),
                   !.animateIn = a.animateIn \cup {entry.target},
                   !.setCount[entry.target] = a.setCount[entry.target] + 1]
    ELSE a

\* The body of the observer callback's forEach, for one entry.
processEntry(a, entry) ==
    IF entry.isIntersecting
    THEN [a EXCEPT !.animDelay[entry.target] = staggerDelay(childIndex[entry.target]),
                   !.animateIn = a.animateIn \cup {entry.target},
                   !.observed = a.observed \ {entry.target},
                   !.setCount[entry.target] = a.setCount[entry.target] + 1]
    ELSE a

RECURSIVE observerCallback(_, _)
\* The observer callback: entries.forEach(...)
observerCallback(a, entries) ==
    IF entries = <<>> THEN a
    ELSE observerCallback(processEntry(a, Head(entries)), Tail(entries))

\* AnimationManager.setupScrollAnimations: every .bento-item is observed when
\* the capability exists.
setupScrollAnimations == IF hasIO THEN Items ELSE {}

\* AnimationManager.handleHoverEnter / handleHoverLeave
handleHoverEnter(hovered, item) == hovered \cup {item}
handleHoverLeave(hovered, item) == hovered \ {item}

\* The scroll listener of setupParallaxEffects: the progress written as width.
scrollProgressWidth(scrolled, bodyHeight, viewHeight) ==
    LET maxScroll == bodyHeight - viewHeight
        scrollProgress == jsTimes(jsDiv(scrolled, maxScroll), 100)
    IN  mathMin(scrollProgress, 100)

\* The scroll listener: rate = scrolled * -0.2
parallaxRate(scrolled) == Frac(0 - (2 * scrolled), 10)

NotSet == [k |-> "unset", n |-> 0, d |-> 1]

----
\* The page before DOMContentLoaded: the markup, no instance, nothing written.

NoRgb == [name \in ColorNames |-> NoText]

FreshDom ==
    /\ currentTheme = Null
    /\ darkClass = FALSE
    /\ sunHidden = markupSunHidden
    /\ moonHidden = markupMoonHidden
    /\ transitionClass = FALSE
    /\ timers = 0
    /\ rgbVars = NoRgb
    /\ observed = {}
    /\ animateIn = {}
    /\ animDelay = [i \in Items |-> 0 - 1]
    /\ hoverTransform = {}
    /\ barWidth = NotSet
    /\ imgShift = NotSet

\* The same document, opened again.
FreshDomNext ==
    /\ currentTheme' = Null
    /\ darkClass' = FALSE
    /\ sunHidden' = markupSunHidden
    /\ moonHidden' = markupMoonHidden
    /\ transitionClass' = FALSE
    /\ timers' = 0
    /\ rgbVars' = NoRgb
    /\ observed' = {}
    /\ animateIn' = {}
    /\ animDelay' = [i \in Items |-> 0 - 1]
    /\ hoverTransform' = {}
    /\ barWidth' = NotSet
    /\ imgShift' = NotSet

NoEntries == [targets |-> {}, intersecting |-> {}]

InitPage ==
    /\ loaded = FALSE
    /\ FreshDom
    /\ scrollY = 0
    /\ op = "none"
    /\ arg = Null
    /\ hist = <<>>
    /\ explicit = FALSE
    /\ loadStorage = Null
    /\ lastTheme = Null
    /\ entriesIn = NoEntries
    /\ setCount = [i \in Items |-> 0]

\* Values the 'theme' key may hold when the page is opened.
StoredValues == {Null, "", "light", "dark", "auto", "Dark"}

\* Arguments scripts may pass to setTheme.
ThemeArgs == {"light", "dark", "Dark", "", Null}

\* Two style sheets: every color a well-formed hex in both modes; and one whose
\* dark mode leaves a color malformed and another undefined.
SheetPlain ==
    [dark \in BOOLEAN |-> [name \in ColorNames |->
        IF dark THEN <<"#", "a", "b", "c">> ELSE <<"3", "3", "6", "6", "9", "9">>]]
SheetPartial ==
    [dark \in BOOLEAN |-> [name \in ColorNames |->
        IF ~dark THEN <<" ", "#", "f", "f", "f">>
        ELSE IF name = "primary" THEN <<"#", "1", "2">>
        ELSE IF name = "accent" THEN NoText
        ELSE <<"#", "0", "0", "0", "0", "0", "0">>]]

ThemeEnvAny ==
    /\ storage \in StoredValues
    /\ mq \in BOOLEAN
    /\ hasSun \in BOOLEAN
    /\ hasMoon \in BOOLEAN
    /\ markupSunHidden \in (IF hasSun THEN BOOLEAN ELSE {FALSE})
    /\ markupMoonHidden \in (IF hasMoon THEN BOOLEAN ELSE {FALSE})
    /\ sheet \in {SheetPlain, SheetPartial}

ThemeEnvOne ==
    /\ storage = Null
    /\ mq = FALSE
    /\ hasSun = TRUE
    /\ hasMoon = TRUE
    /\ markupSunHidden = FALSE
    /\ markupMoonHidden = TRUE
    /\ sheet = SheetPlain

\* Computed values of --color-primary: every text over HexAlphabet up to
\* MaxStrLen characters, and some longer or padded ones.
HexAlphabet == {"#", "a", "3", "g"}
ColorTexts ==
    UNION {[1..n -> HexAlphabet] : n \in 0..MaxStrLen}
        \cup {<<" ", "#", "a", "b", "c", " ">>,
              <<"3", "3", "6", "6", "9", "9">>,
              <<"#", "1", "2">>,
              <<"r", "e", "d">>,
              <<"#", "A", "B", "C", "D", "E", "F">>,
              <<"-", "1", "0", "x", "+", "f">>,
              <<"r", "g", "b", "(", "0", ",", "0", ",", "0", ")">>}

ThemeEnvRgb ==
    /\ storage = Null
    /\ mq = FALSE
    /\ hasSun = TRUE
    /\ hasMoon = TRUE
    /\ markupSunHidden = FALSE
    /\ markupMoonHidden = TRUE
    /\ sheet \in {[dark \in BOOLEAN |-> [name \in ColorNames |->
                     IF name = "primary" THEN text ELSE SheetPlain[dark][name]]] :
                 text \in ColorTexts}

AnimEnvAny ==
    /\ hasIO \in BOOLEAN
    /\ childIndex \in {[i \in Items |-> lead + i - 1] : lead \in 0..MaxLead}

AnimEnvOne ==
    /\ hasIO = TRUE
    /\ childIndex = [i \in Items |-> i - 1]

ScrollEnvAny ==
    /\ scrollHeight \in 1..MaxHeight
    /\ innerHeight \in 1..MaxHeight
    /\ hasBar \in BOOLEAN

ScrollEnvOne ==
    /\ scrollHeight = MaxHeight
    /\ innerHeight = 1
    /\ hasBar = TRUE

----
\* The handlers.

\* document.addEventListener('DOMContentLoaded', ...): both managers are built.
DOMContentLoaded ==
    /\ ~loaded
    /\ loaded' = TRUE
    /\ Put(constructor(Tm, mq))
    /\ observed' = setupScrollAnimations
    /\ Record("load", Null)
    /\ loadStorage' = storage
    /\ UNCHANGED <<mq, themeEnv, explicit, lastTheme>>
    /\ UNCHANGED <<animEnv, animateIn, animDelay, hoverTransform, animHist>>
    /\ UNCHANGED <<scrollEnv, scrollDom>>

\* The page goes away (reload, navigation): the document, the instance and the
\* pending timers are dropped, localStorage stays.
PageUnload ==
    /\ loaded
    /\ loaded' = FALSE
    /\ UNCHANGED <<storage, mq, themeEnv, explicit, loadStorage>>
    /\ UNCHANGED <<animEnv, scrollHeight, innerHeight, hasBar>>
    /\ FreshDomNext
    /\ scrollY' = 0
    /\ Record("unload", Null)
    /\ lastTheme' = currentTheme
    /\ entriesIn' = NoEntries
    /\ setCount' = [i \in Items |-> 0]

othersThanTheme == <<animEnv, animDom, animHist, scrollEnv, scrollDom>>

\* A click on #theme-toggle, or window.themeManager.toggleTheme().
ToggleTheme ==
    /\ loaded
    /\ timers < MaxTimers
    /\ Put(toggleTheme(Tm))
    /\ Record("toggle", Null)
    /\ explicit' = TRUE
    /\ UNCHANGED <<loaded, mq, themeEnv, loadStorage, lastTheme, othersThanTheme>>

\* window.themeManager.setTheme(theme)
SetTheme ==
    \E theme \in ThemeArgs :
        /\ loaded
        /\ theme \in Themes => timers < MaxTimers
        /\ Put(setTheme(Tm, theme))
        /\ Record("setTheme", theme)
        /\ explicit' = (explicit \/ theme \in Themes)
        /\ UNCHANGED <<loaded, mq, themeEnv, loadStorage, lastTheme, othersThanTheme>>

\* The OS preference changes while the page is open: the media query's
\* 'change' listener runs with e.matches the new value.
SystemThemeChange ==
    /\ loaded
    /\ ~Truthy(storage) => timers < MaxTimers
    /\ mq' = ~mq
    /\ Put(handleSystemThemeChange(Tm, ~mq))
    /\ Record("systemChange", Null)
    /\ UNCHANGED <<loaded, themeEnv, explicit, loadStorage, lastTheme, othersThanTheme>>

\* The OS preference changes while no page is open.
SystemThemeChangeClosed ==
    /\ ~loaded
    /\ mq' = ~mq
    /\ UNCHANGED <<loaded, storage, currentTheme, themeEnv, themeDom, themeHist, op,
                   othersThanTheme>>

\* A setTimeout callback of addTransitionClass runs.
TimerFires ==
    /\ loaded
    /\ timers > 0
    /\ Put(removeTransitionClass(Tm))
    /\ Record("timer", Null)
    /\ UNCHANGED <<loaded, mq, themeEnv, explicit, loadStorage, lastTheme, othersThanTheme>>

othersThanAnim ==
    <<storage, mq, themeEnv, currentTheme, themeDom, themeHist, scrollEnv, scrollDom>>

\* The batches the browser may deliver: entries of targets still observed.
EntryBatches ==
    UNION {[1..n -> [target : observed, isIntersecting : BOOLEAN]] : n \in 1..MaxEntries}

\* The IntersectionObserver delivers a batch of entries.
IntersectionCallback ==
    \E entries \in EntryBatches :
        LET a == observerCallback(An, entries)
        IN  /\ loaded
            /\ \A i \in Items : a.setCount[i] <= MaxSets
            /\ observed' = a.observed
            /\ animateIn' = a.animateIn
            /\ animDelay' = a.animDelay
            /\ setCount' = a.setCount
            /\ entriesIn' =
                    [targets |-> {entries[k].target : k \in 1..Len(entries)},
                     intersecting |->
                        {entries[k].target :
                            k \in {x \in 1..Len(entries) : entries[x].isIntersecting}}]
            /\ op' = "intersect"
            /\ UNCHANGED <<loaded, animEnv, hoverTransform, othersThanAnim>>

MouseEnter ==
    \E item \in Items :
        /\ loaded
        /\ hoverTransform' = handleHoverEnter(hoverTransform, item)
        /\ op' = "mouseenter"
        /\ UNCHANGED <<loaded, animEnv, observed, animateIn, animDelay, animHist,
                       othersThanAnim>>

MouseLeave ==
    \E item \in Items :
        /\ loaded
        /\ hoverTransform' = handleHoverLeave(hoverTransform, item)
        /\ op' = "mouseleave"
        /\ UNCHANGED <<loaded, animEnv, observed, animateIn, animDelay, animHist,
                       othersThanAnim>>

othersThanScroll ==
    <<storage, mq, themeEnv, currentTheme, themeDom, themeHist, animEnv, animDom,
      animHist>>

\* The window scrolls to offset y and the scroll listener runs.
ScrollEvent ==
    \E y \in 0..MaxOffset :
        /\ loaded
        /\ scrollY' = y
        /\ barWidth' = IF hasBar
                       THEN scrollProgressWidth(y, scrollHeight, innerHeight)
                       ELSE barWidth
        /\ imgShift' = parallaxRate(y)
        /\ op' = "scroll"
        /\ UNCHANGED <<loaded, scrollHeight, innerHeight, hasBar, othersThanScroll>>

\* The viewport or the content changes height; no listener is registered.
Resize ==
    \E h \in 1..MaxHeight, v \in 1..MaxHeight :
        /\ loaded
        /\ scrollHeight' = h
        /\ innerHeight' = v
        /\ op' = "resize"
        /\ UNCHANGED <<loaded, scrollY, hasBar, scrollDom, othersThanScroll>>

----
\* The specifications: one per component, the other components' environment
\* held at one typical page.

InitTheme == ThemeEnvAny /\ AnimEnvOne /\ ScrollEnvOne /\ InitPage
NextTheme ==
    \/ DOMContentLoaded
    \/ PageUnload
    \/ ToggleTheme
    \/ SetTheme
    \/ SystemThemeChange
    \/ SystemThemeChangeClosed
    \/ TimerFires
SpecTheme == InitTheme /\ [][NextTheme]_vars

InitAnim == ThemeEnvOne /\ AnimEnvAny /\ ScrollEnvOne /\ InitPage
NextAnim ==
    \/ DOMContentLoaded
    \/ IntersectionCallback
    \/ MouseEnter
    \/ MouseLeave
SpecAnim == InitAnim /\ [][NextAnim]_vars

InitScroll == ThemeEnvOne /\ AnimEnvOne /\ ScrollEnvAny /\ InitPage
NextScroll ==
    \/ DOMContentLoaded
    \/ ScrollEvent
    \/ Resize
SpecScroll == InitScroll /\ [][NextScroll]_vars

InitRgb == ThemeEnvRgb /\ AnimEnvOne /\ ScrollEnvOne /\ InitPage
NextRgb == DOMContentLoaded
SpecRgb == InitRgb /\ [][NextRgb]_vars

----
\* The properties.

OsTheme(matches) == IF matches THEN "dark" ELSE "light"
Other(theme) == IF theme = "light" THEN "dark" ELSE "light"

\* C1 (as claimed): on a page opened with no 'theme' key, a delivered OS
\* color-scheme change makes the OS theme the current theme as long as neither
\* toggleTheme nor a valid setTheme has stored a preference, and changes
\* neither the current theme, the stored value nor the dark-mode class afterwards.
C1_OsChangeHonouredUntilExplicit ==
    [][(loaded /\ loadStorage = Null /\ op' = "systemChange" /\ mq' # mq)
         => IF ~explicit
            THEN currentTheme' = OsTheme(mq')
            ELSE UNCHANGED <<currentTheme, storage, darkClass>>]_vars

\* C2: construction resolves the theme to the stored value when that is exactly
\* 'light' or 'dark', whatever the OS preference, and to the OS preference for
\* every other stored value (absent, empty, any other text).
C2_InitialThemeResolution ==
    op = "load" =>
        /\ currentTheme \in Themes
        /\ loadStorage \in Themes => currentTheme = loadStorage
        /\ loadStorage \notin Themes => currentTheme = OsTheme(mq)

\* C2's case: a page opened with an invalid stored value under a dark OS.
C2_Witness ==
    op = "load" /\ loadStorage = "auto" /\ mq /\ currentTheme = "dark"

\* C3: setTheme with a value other than 'light' and 'dark' changes neither the
\* current theme, the stored value, the dark-mode class nor the transition
\* class, and schedules no timer.
C3_InvalidSetThemeIsNoOp ==
    [][(loaded /\ op' = "setTheme" /\ arg' \notin Themes)
         => UNCHANGED <<currentTheme, storage, darkClass, transitionClass, timers>>]_vars

\* C3's case: an invalid setTheme ran while a transition was still pending.
C3_Witness ==
    /\ loaded /\ op = "setTheme" /\ arg = "Dark"
    /\ currentTheme = "light" /\ storage = "light" /\ transitionClass /\ timers = 1

\* C4: one toggleTheme changes the current theme to the other enum value; two
\* consecutive ones bring the current theme and the stored value back to what
\* they were before the first.
C4_ToggleTwiceIsIdentity ==
    /\ (Len(hist) >= 1 /\ hist[1].name = "toggle") =>
            /\ currentTheme \in Themes
            /\ currentTheme # hist[1].theme
            /\ currentTheme = Other(hist[1].theme)
    /\ (Len(hist) >= 2 /\ hist[1].name = "toggle" /\ hist[2].name = "toggle") =>
            /\ currentTheme = hist[2].theme
            /\ storage = hist[2].stored

\* C4's case: two toggles in a row, from dark and back to it.
C4_Witness ==
    /\ Len(hist) = 2 /\ hist[1].name = "toggle" /\ hist[2].name = "toggle"
    /\ hist[2].theme = "dark" /\ hist[1].theme = "light" /\ currentTheme = "dark"

\* C5: a newly constructed ThemeManager (same local storage) starts with the
\* theme the previous instance had last, whatever the OS preference is then.
C5_ThemeSurvivesReload ==
    (op = "load" /\ lastTheme # Null) => currentTheme = lastTheme

\* C5's case: reloaded against the OS preference after an explicit change.
C5_Witness ==
    op = "load" /\ explicit /\ lastTheme = "dark" /\ ~mq /\ currentTheme = "dark"

\* C9: while a ThemeManager exists the current theme is 'light' or 'dark', the
\* stored value equals it, the root has 'dark-mode' exactly when it is dark,
\* with both icons present the sun is hidden exactly when dark and the moon
\* exactly when light, and with an icon absent both keep their markup state.
C9_ThemeConsistency ==
    loaded =>
        /\ currentTheme \in Themes
        /\ storage = currentTheme
        /\ darkClass = (currentTheme = "dark")
        /\ (hasSun /\ hasMoon) =>
                /\ sunHidden = (currentTheme = "dark")
                /\ moonHidden = (currentTheme = "light")
        /\ ~(hasSun /\ hasMoon) =>
                /\ sunHidden = markupSunHidden
                /\ moonHidden = markupMoonHidden

\* C9's case: a dark theme applied over markup that showed the sun icon.
C9_Witness ==
    /\ loaded /\ currentTheme = "dark" /\ hasSun /\ hasMoon
    /\ ~markupSunHidden /\ sunHidden /\ ~moonHidden /\ op = "toggle"

\* C10 (as claimed): the transition class is never removed while the removal
\* timer of the most recent applyTheme is still pending.
C10_NeverRemovedWhileLastTimerPending ==
    [][(loaded /\ loaded' /\ transitionClass /\ ~transitionClass') => timers' = 0]_vars

\* C10 (amended): every theme application leaves the class on the root with one
\* more removal pending; every removal callback leaves the class off, whichever
\* application scheduled it; and the class is never on without a pending
\* removal.
C10_RemovedByFirstCallback ==
    [][loaded' =>
          /\ timers' > timers => (transitionClass' /\ timers' = timers + 1)
          /\ op' = "timer" => (~transitionClass' /\ timers' = timers - 1)
          /\ transitionClass' => timers' > 0]_vars

\* C10's case: an earlier application's callback ran and removed the class
\* while a later application's callback is still pending.
C10_Witness ==
    loaded /\ op = "timer" /\ ~transitionClass /\ timers >= 1

\* C6 (as claimed): after a scroll event at a non-negative offset the width
\* written is a percentage between 0 and 100, for every body and viewport
\* height: 0 at offset 0, 100 at the offset body height minus viewport height.
C6_ProgressWithinRange ==
    (op = "scroll" /\ hasBar) =>
        /\ barWidth.k = "fin"
        /\ 0 <= barWidth.n
        /\ barWidth.n <= 100 * barWidth.d
        /\ scrollY = 0 => barWidth = Fin(0)
        /\ (scrollY > 0 /\ scrollY = scrollHeight - innerHeight) => barWidth = Fin(100)

\* C7: an item that carries 'animate-in' is no longer observed, and no later
\* callback sets its delay or class again; an observed item whose entries in a
\* callback are all non-intersecting stays observed and unmarked.
C7_EntranceIsOneShot ==
    [][\A i \in Items :
          /\ i \in animateIn =>
                /\ i \notin observed
                /\ i \in animateIn'
                /\ animDelay'[i] = animDelay[i]
                /\ setCount'[i] = setCount[i]
          /\ (/\ op' = "intersect"
              /\ i \in observed
              /\ i \in entriesIn'.targets
              /\ i \notin entriesIn'.intersecting) =>
                /\ i \in observed'
                /\ i \notin animateIn'
                /\ animDelay'[i] = animDelay[i]]_vars

\* C7's case: after one item was animated, a later callback brought only a
\* non-intersecting entry of another item.
C7_Witness ==
    /\ op = "intersect"
    /\ \E i, j \in Items :
          /\ i # j
          /\ i \in animateIn /\ i \notin observed /\ setCount[i] = 1
          /\ animDelay[i] = staggerDelay(childIndex[i])
          /\ j \in observed /\ j \notin animateIn
          /\ entriesIn = [targets |-> {j}, intersecting |-> {}]

\* A computed color the claim calls well formed: 3 or 6 hex digits, with or
\* without a leading '#'.
HexBody(text) == IF text # <<>> /\ Head(text) = "#" THEN Tail(text) ELSE text
WellFormedHex(text) ==
    /\ Len(HexBody(text)) \in {3, 6}
    /\ \A i \in 1..Len(HexBody(text)) : IsHexDigit(HexBody(text)[i])

\* Its 'R, G, B' triplet, the 3-digit form with every digit doubled.
Triplet(text) ==
    LET h == HexBody(text)
        pair(i) == IF Len(h) = 3 THEN 17 * HexVal(h[i])
                   ELSE 16 * HexVal(h[2 * i - 1]) + HexVal(h[2 * i])
    IN  Decimal(pair(1)) \o <<",", " ">> \o Decimal(pair(2)) \o <<",", " ">>
            \o Decimal(pair(3))

\* C8 (as claimed): the '-rgb' variable is written exactly when the computed
\* color is well formed, and then holds its decimal triplet; for a malformed
\* text (wrong length, or characters that are no hex digits) none is written.
C8_RgbWrittenIffWellFormed ==
    loaded =>
        LET text == trim(computedStyle(sheet, darkClass)["primary"])
        IN  IF WellFormedHex(text)
            THEN rgbVars["primary"] = Triplet(text)
            ELSE rgbVars["primary"] = NoText

====
